---- MODULE Spec2Model ----
(***************************************************************************)
(* Item Service (backend/server.js) and Item Viewer (frontend/src/App.js). *)
(*                                                                         *)
(* The service answers GET /api/items by reading data/items.json, parsing  *)
(* it with JSON.parse and sending the value back with res.json.  The       *)
(* viewer fetches that endpoint once on mount, parses the body with        *)
(* response.json() and stores the value with setItems.                     *)
(*                                                                         *)
(* Text (the backing file, a response body) is a sequence of JSON lexemes; *)
(* JSON.parse and JSON.stringify are computed over those lexemes.          *)
(***************************************************************************)
EXTENDS Integers, Sequences, FiniteSets, TLC

(***************************************************************************)
(* Bounds of the model.                                                    *)
(***************************************************************************)
\* external replacements / deletions of the backing file
MaxEdits == 2
\* requests sent by clients other than the viewer (curl, a second browser)
MaxCurl == 2

(***************************************************************************)
(* Lexemes.  k is the lexeme class: a punctuation mark, "null", "str" (a   *)
(* string literal, s its value), "num" (a non-negative integer literal of  *)
(* value hi * Limb + lo), "ws" (white space) or "html" (text that is no    *)
(* JSON lexeme at all).                                                    *)
(***************************************************************************)
Limb == 2^27

Tok(k, s, hi, lo) == [k |-> k, s |-> s, hi |-> hi, lo |-> lo]
P(k) == Tok(k, "", 0, 0)
S(s) == Tok("str", s, 0, 0)
N(hi, lo) == Tok("num", "", hi, lo)
WS == P("ws")

(***************************************************************************)
(* JavaScript values.  Every value is a record of the same shape:          *)
(*   k  "undefined", "null", "num", "str", "arr", "obj", or "member"       *)
(*   s  the string of a "str", the key of a "member"                       *)
(*   hi, lo  the number hi * Limb + lo of a "num"                          *)
(*   a  the elements of an "arr"; the members of an "obj", in insertion    *)
(*      order; the one value of a "member"                                 *)
(***************************************************************************)
Val(k, s, hi, lo, a) == [k |-> k, s |-> s, hi |-> hi, lo |-> lo, a |-> a]
Undefined == Val("undefined", "", 0, 0, <<>>)
Null == Val("null", "", 0, 0, <<>>)
Str(s) == Val("str", s, 0, 0, <<>>)
Num(hi, lo) == Val("num", "", hi, lo, <<>>)
Arr(elems) == Val("arr", "", 0, 0, elems)
Obj(members) == Val("obj", "", 0, 0, members)
Member(key, v) == Val("member", key, 0, 0, <<v>>)

(***************************************************************************)
(* A number literal becomes an IEEE-754 double: 53 significant bits, round *)
(* to nearest, ties to even.  Spacing(hi) is the distance between          *)
(* neighbouring doubles at the magnitude of hi * Limb.                     *)
(***************************************************************************)
RECURSIVE Spacing(_)
Spacing(hi) == IF hi < Limb \div 2 THEN 1 ELSE 2 * Spacing(hi \div 2)

ToDouble(hi, lo) ==
    LET q == Spacing(hi)
        r == lo % q
        down == lo - r
        up == down + q
        pick == IF 2 * r < q THEN down
                ELSE IF 2 * r > q THEN up
                ELSE IF (down \div q) % 2 = 0 THEN down ELSE up
    IN  IF pick = Limb THEN Num(hi + 1, 0) ELSE Num(hi, pick)

(***************************************************************************)
(* JSON.parse: a recursive-descent parse of the lexemes.  A parse step     *)
(* returns [ok, val, next]: next is the index after the value.             *)
(***************************************************************************)
Fail == [ok |-> FALSE, val |-> Undefined, next |-> 0]
Got(v, n) == [ok |-> TRUE, val |-> v, next |-> n]

RECURSIVE SkipWs(_, _)
SkipWs(toks, i) ==
    IF i <= Len(toks) /\ toks[i].k = "ws" THEN SkipWs(toks, i + 1) ELSE i

At(toks, i) == IF i <= Len(toks) THEN toks[i].k ELSE "eof"

RECURSIVE IndexOfKey(_, _, _)
IndexOfKey(members, key, i) ==
    IF i > Len(members) THEN 0
    ELSE IF members[i].s = key THEN i
    ELSE IndexOfKey(members, key, i + 1)

\* obj[key] = v: a key already present keeps its place and takes the new value
PutMember(members, key, v) ==
    LET at == IndexOfKey(members, key, 1)
    IN  IF at = 0 THEN Append(members, Member(key, v))
        ELSE [members EXCEPT ![at] = Member(key, v)]

RECURSIVE ParseValue(_, _), ParseElements(_, _, _), ParseMembers(_, _, _)
ParseValue(toks, i0) ==
    LET i == SkipWs(toks, i0)
        k == At(toks, i)
    IN  CASE k = "null" -> Got(Null, i + 1)
          [] k = "str" -> Got(Str(toks[i].s), i + 1)
          [] k = "num" -> Got(ToDouble(toks[i].hi, toks[i].lo), i + 1)
          [] k = "[" ->
                LET j == SkipWs(toks, i + 1)
                IN  IF At(toks, j) = "]" THEN Got(Arr(<<>>), j + 1)
                    ELSE ParseElements(toks, j, <<>>)
          [] k = "{" ->
                LET j == SkipWs(toks, i + 1)
                IN  IF At(toks, j) = "}" THEN Got(Obj(<<>>), j + 1)
                    ELSE ParseMembers(toks, j, <<>>)
          [] OTHER -> Fail

ParseElements(toks, i, acc) ==
    LET e == ParseValue(toks, i)
    IN  IF ~e.ok THEN Fail
        ELSE LET j == SkipWs(toks, e.next)
                 k == At(toks, j)
             IN  IF k = "," THEN ParseElements(toks, j + 1, Append(acc, e.val))
                 ELSE IF k = "]" THEN Got(Arr(Append(acc, e.val)), j + 1)
                 ELSE Fail

ParseMembers(toks, i0, acc) ==
    LET i == SkipWs(toks, i0)
    IN  IF At(toks, i) # "str" THEN Fail
        ELSE LET c == SkipWs(toks, i + 1)
             IN  IF At(toks, c) # ":" THEN Fail
                 ELSE LET e == ParseValue(toks, c + 1)
                      IN  IF ~e.ok THEN Fail
                          ELSE LET j == SkipWs(toks, e.next)
                                   k == At(toks, j)
                                   more == PutMember(acc, toks[i].s, e.val)
                               IN  IF k = "," THEN ParseMembers(toks, j + 1, more)
                                   ELSE IF k = "}" THEN Got(Obj(more), j + 1)
                                   ELSE Fail

\* JSON.parse(text): one value, then nothing but white space; else SyntaxError
JSONParse(toks) ==
    LET e == ParseValue(toks, 1)
    IN  IF e.ok /\ SkipWs(toks, e.next) = Len(toks) + 1 THEN e ELSE Fail

(***************************************************************************)
(* JSON.stringify without indentation.                                     *)
(***************************************************************************)
RECURSIVE Stringify(_), StringifyList(_, _)
Stringify(v) ==
    CASE v.k = "null" -> <<P("null")>>
      [] v.k = "str" -> <<S(v.s)>>
      [] v.k = "num" -> <<N(v.hi, v.lo)>>
      [] v.k = "arr" -> <<P("[")>> \o StringifyList(v.a, 1) \o <<P("]")>>
      [] v.k = "obj" -> <<P("{")>> \o StringifyList(v.a, 1) \o <<P("}")>>
      [] v.k = "member" -> <<S(v.s), P(":")>> \o Stringify(v.a[1])
      [] OTHER -> <<>>

StringifyList(vs, i) ==
    IF i > Len(vs) THEN <<>>
    ELSE (IF i > 1 THEN <<P(",")>> ELSE <<>>)
         \o Stringify(vs[i]) \o StringifyList(vs, i + 1)


(***************************************************************************)
(* The texts the environment puts into data/items.json.                    *)
(*                                                                         *)
(* An authored item is [hi, lo, name]: the identifier hi * Limb + lo and   *)
(* the display name.  A layout says how the author wrote the array: with   *)
(* white space as in the README or without, and with "id" or "name" first. *)
(***************************************************************************)
Sp(lay) == IF lay.ws THEN <<WS>> ELSE <<>>

ItemText(it, lay) ==
    LET id == <<S("id"), P(":")>> \o Sp(lay) \o <<N(it.hi, it.lo)>>
        name == <<S("name"), P(":")>> \o Sp(lay) \o <<S(it.name)>>
        sep == <<P(",")>> \o Sp(lay)
    IN  <<P("{")>>
        \o (IF lay.nameFirst THEN name \o sep \o id ELSE id \o sep \o name)
        \o <<P("}")>>

RECURSIVE ItemsBody(_, _, _)
ItemsBody(items, lay, i) ==
    IF i > Len(items) THEN <<>>
    ELSE (IF i > 1 THEN <<P(",")>> \o Sp(lay) ELSE <<>>)
         \o ItemText(items[i], lay) \o ItemsBody(items, lay, i + 1)

ItemsText(items, lay) ==
    <<P("[")>> \o Sp(lay) \o ItemsBody(items, lay, 1) \o Sp(lay) \o <<P("]")>> \o Sp(lay)

Item1 == [hi |-> 0, lo |-> 1, name |-> "Item 1"]
Item2 == [hi |-> 0, lo |-> 2, name |-> "Item 2"]
Item3 == [hi |-> 0, lo |-> 3, name |-> "Item 3"]
\* an identifier one above 2^53
BigItem == [hi |-> Limb \div 2, lo |-> 1, name |-> "Item 1"]

Readme == [ws |-> TRUE, nameFirst |-> FALSE]
Compact == [ws |-> FALSE, nameFirst |-> FALSE]
CompactNameFirst == [ws |-> FALSE, nameFirst |-> TRUE]

\* the file the README creates
ReadmeItems == <<Item1, Item2, Item3>>
ItemsJson == ItemsText(ReadmeItems, Readme)

\* the item arrays the environment writes: empty, one item, identifiers out of
\* order, a repeated item, the README's three, an identifier above 2^53
ItemSeqs ==
    {<<>>, <<Item1>>, <<Item2, Item1>>, <<Item1, Item1>>, ReadmeItems, <<BigItem>>}

\* every well-formed file holding an array of item objects: each array laid out
\* as in the README, and one written compactly with the name first
Authored ==
    {[items |-> s, lay |-> Readme] : s \in ItemSeqs}
        \cup {[items |-> <<Item2, Item1>>, lay |-> CompactNameFirst]}

\* valid JSON that is not an array of item objects
OtherJsonTexts ==
    { <<P("null")>>,
      <<N(0, 5)>>,
      ItemText(Item1, Compact),
      <<P("["), P("null"), P("]")>>,
      <<P("["), P("{"), S("id"), P(":"), N(0, 1), P(","), S("name"), P(":"),
        S("Item 1"), P(","), S("id"), P(":"), N(0, 2), P("}"), P("]")>>,
      <<P("["), P("{"), S("name"), P(":"), P("{"), S("en"), P(":"), S("Item 1"),
        P("}"), P("}"), P("]")>> }

\* text that is not JSON
MalformedTexts ==
    { <<>>,
      <<P("[")>> \o ItemText(Item1, Compact),
      <<P("[")>> \o ItemText(Item1, Compact) \o <<P(","), P("]")>>,
      <<P("html")>> }

(***************************************************************************)
(* The backing file is [st, text, kind, items].  The handler sees st and   *)
(* text.  kind and items record what the environment wrote, for the        *)
(* properties: "items" (an array of the item objects `items`), "json"      *)
(* (other valid JSON), "bad" (no JSON), "none" (no file).                  *)
(***************************************************************************)
File(text, kind, its) == [st |-> "present", text |-> text, kind |-> kind, items |-> its]
Absent == [st |-> "absent", text |-> <<>>, kind |-> "none", items |-> <<>>]

Files ==
    {File(ItemsText(a.items, a.lay), "items", a.items) : a \in Authored}
        \cup {File(t, "json", <<>>) : t \in OtherJsonTexts}
        \cup {File(t, "bad", <<>>) : t \in MalformedTexts}

(***************************************************************************)
(* State.                                                                  *)
(***************************************************************************)
VARIABLES
    file,           \* data/items.json; st is "present", "absent" or "unreadable"
    edits,          \* how often the environment has changed the backing file
    serverUp,       \* the service process is listening
    pending,        \* requests sent to the service and not yet handled
    curlSent,       \* requests sent by clients other than the viewer
    log,            \* one entry per handled request, in the order handled
    diskReads,      \* calls of fs.readFileSync
    resp,           \* the response travelling to the viewer
    mounted,        \* "unrendered", "mounted", "unmounted", or "crashed"
    items,          \* the viewer's state: useState([])
    dom,            \* what the viewer shows: [ok, lis], lis the <li> children
    vpc,            \* where the fetch promise chain stands
    data,           \* the value response.json() resolved with
    rejectedBy,     \* why the chain rejected: "none", "network", "json", "render"
    fetchCount,     \* calls of fetch
    setItemsCalls,  \* calls of setItems
    lateUpdate,     \* setItems was called after the viewer was torn down
    consoleErrors   \* calls of console.error

svcVars == <<file, serverUp, pending, log, diskReads, resp>>
envVars == <<edits, curlSent>>
viewVars == <<mounted, items, dom, vpc, data, rejectedBy, fetchCount,
              setItemsCalls, lateUpdate, consoleErrors>>
vars == <<svcVars, envVars, viewVars>>

NoResp == [st |-> "none", status |-> 0, body |-> <<>>]
EmptyList == [ok |-> TRUE, lis |-> <<>>]
Crash == [ok |-> FALSE, lis |-> <<>>]

\* the viewer's request; the other clients' requests are 1, 2, ...
IsViewer(r) == r = 0

Init ==
    /\ file = File(ItemsJson, "items", ReadmeItems)
    /\ edits = 0
    /\ serverUp = TRUE
    /\ pending = {}
    /\ curlSent = 0
    /\ log = <<>>
    /\ diskReads = 0
    /\ resp = NoResp
    /\ mounted = "unrendered"
    /\ items = Arr(<<>>)
    /\ dom = EmptyList
    /\ vpc = "idle"
    /\ data = Undefined
    /\ rejectedBy = "none"
    /\ fetchCount = 0
    /\ setItemsCalls = 0
    /\ lateUpdate = FALSE
    /\ consoleErrors = 0

(***************************************************************************)
(* The environment: the backing file is replaced, deleted or made          *)
(* unreadable from outside; other clients send requests.                   *)
(***************************************************************************)
ReplaceFile(f) ==
    /\ edits < MaxEdits
    /\ file # f
    /\ file' = f
    /\ edits' = edits + 1
    /\ UNCHANGED <<serverUp, pending, log, diskReads, resp, curlSent, viewVars>>

DeleteFile ==
    /\ edits < MaxEdits
    /\ file.st # "absent"
    /\ file' = Absent
    /\ edits' = edits + 1
    /\ UNCHANGED <<serverUp, pending, log, diskReads, resp, curlSent, viewVars>>

RevokeRead ==
    /\ edits < MaxEdits
    /\ file.st = "present"
    /\ file' = [file EXCEPT !.st = "unreadable"]
    /\ edits' = edits + 1
    /\ UNCHANGED <<serverUp, pending, log, diskReads, resp, curlSent, viewVars>>

CurlSend ==
    /\ curlSent < MaxCurl
    /\ serverUp
    /\ curlSent' = curlSent + 1
    /\ pending' = pending \cup {curlSent + 1}
    /\ UNCHANGED <<file, serverUp, log, diskReads, resp, edits, viewVars>>

(***************************************************************************)
(* The service.                                                            *)
(***************************************************************************)
\* fs.readFileSync(path, "utf8"): the text, or a throw (ENOENT, EACCES)
ReadFileSync(f) ==
    IF f.st = "present" THEN [ok |-> TRUE, text |-> f.text]
    ELSE [ok |-> FALSE, text |-> <<>>]

\* a handler that loses the last element of an array
ResJson_dropLast(v) ==
    [status |-> 200,
     body |-> Stringify(IF v.k = "arr" /\ Len(v.a) > 0
                        THEN Arr(SubSeq(v.a, 1, Len(v.a) - 1)) ELSE v)]

\* res.json(items): 200 with the value serialised
ResJson(v) == [status |-> 200, body |-> Stringify(v)]

\* the framework's answer to a handler that threw: 500 and an HTML page
ErrorPage == [status |-> 500, body |-> <<P("html")>>]

\* a handler that catches the fault and answers an empty list
Respond_empty(f) ==
    LET read == ReadFileSync(f)
        parsed == JSONParse(read.text)
    IN  IF read.ok /\ parsed.ok THEN ResJson(parsed.val) ELSE ResJson(Arr(<<>>))

\* the route handler's outcome on the file f
Respond(f) ==
    LET read == ReadFileSync(f)
        parsed == JSONParse(read.text)
    IN  IF read.ok /\ parsed.ok THEN ResJson(parsed.val) ELSE ErrorPage

\* a throw that escapes the router ends the process
SurvivesThrow_crash == FALSE

\* a throw inside the synchronous handler is caught by the router
SurvivesThrow == TRUE

\* one run of the route handler for request r: it answers `out` and leaves the
\* backing file as `after`
Handle(r, out, after) ==
    /\ serverUp
    /\ r \in pending
    /\ log' = Append(log, [req |-> r, status |-> out.status,
                           body |-> out.body, fileAt |-> file])
    /\ resp' = IF IsViewer(r)
               THEN [st |-> "sent", status |-> out.status, body |-> out.body]
               ELSE resp
    /\ serverUp' = (out.status = 200 \/ SurvivesThrow)
    /\ diskReads' = diskReads + 1
    /\ pending' = pending \ {r}
    /\ file' = after
    /\ UNCHANGED <<envVars, viewVars>>

\* a handler that keeps the first answer it computed
GetApiItems_cached(r) ==
    Handle(r, Respond(IF log = <<>> THEN file ELSE log[1].fileAt), file)

\* a handler that writes the parsed items back to the file
GetApiItems_rewrite(r) ==
    Handle(r, Respond(file),
           IF Respond(file).status = 200
           THEN [file EXCEPT !.text = Respond(file).body] ELSE file)

\* app.get("/api/items", ...) handling request r
GetApiItems(r) == Handle(r, Respond(file), file)

(***************************************************************************)
(* The viewer.                                                             *)
(***************************************************************************)
\* v[key]: the member's value; undefined when v has no such property
Get(v, key) ==
    LET at == IF v.k = "obj" THEN IndexOfKey(v.a, key, 1) ELSE 0
    IN  IF at = 0 THEN Undefined ELSE v.a[at].a[1]

RECURSIVE RenderItems(_, _)
RenderItems(elems, i) ==
    IF i > Len(elems) THEN EmptyList
    ELSE LET child == Get(elems[i], "name")
             rest == RenderItems(elems, i + 1)
         IN  IF elems[i].k \in {"null", "undefined"} \/ child.k = "obj" \/ ~rest.ok
             THEN Crash
             ELSE [ok |-> TRUE, lis |-> <<child>> \o rest.lis]

\* a list rendered last item first
Render_reversed(v) ==
    IF v.k = "arr"
    THEN RenderItems([i \in 1..Len(v.a) |-> v.a[Len(v.a) + 1 - i]], 1)
    ELSE Crash

\* the <ul>: items.map((item) => <li key={item.id}>{item.name}</li>)
Render(v) == IF v.k = "arr" THEN RenderItems(v.a, 1) ELSE Crash

\* an effect without a dependency array runs after every render
DepsChanged_always == TRUE

\* the effect's dependency array is empty: no render after the first re-runs it
DepsChanged == FALSE

\* a cleanup that aborts the fetch on teardown
EffectCleanup_abort(pc) ==
    IF pc \in {"fetching", "response", "data"} THEN "aborted" ELSE pc

\* the effect returns no cleanup: teardown leaves the promise chain where it is
EffectCleanup(pc) == pc

\* first render, then the effect: fetch(`${backendUrl}/api/items`)
Mount ==
    /\ mounted = "unrendered"
    /\ mounted' = "mounted"
    /\ items' = Arr(<<>>)
    /\ dom' = Render(Arr(<<>>))
    /\ fetchCount' = fetchCount + 1
    /\ vpc' = "fetching"
    /\ pending' = pending \cup {0}
    /\ UNCHANGED <<file, serverUp, log, diskReads, resp, envVars, data, rejectedBy,
                   setItemsCalls, lateUpdate, consoleErrors>>

\* the request or its response is lost: fetch rejects
NetworkError ==
    /\ vpc = "fetching"
    /\ vpc' = "rejected"
    /\ rejectedBy' = "network"
    /\ pending' = pending \ {0}
    /\ resp' = NoResp
    /\ UNCHANGED <<file, serverUp, log, diskReads, envVars, mounted, items, dom, data,
                   fetchCount, setItemsCalls, lateUpdate, consoleErrors>>

\* the response arrives: fetch resolves, whatever the status
FetchResolve ==
    /\ vpc = "fetching"
    /\ resp.st = "sent"
    /\ vpc' = "response"
    /\ UNCHANGED <<svcVars, envVars, mounted, items, dom, data, rejectedBy,
                   fetchCount, setItemsCalls, lateUpdate, consoleErrors>>

\* .then((response) => response.json())
ResponseJson ==
    /\ vpc = "response"
    /\ LET e == JSONParse(resp.body)
       IN  /\ vpc' = IF e.ok THEN "data" ELSE "rejected"
           /\ data' = IF e.ok THEN e.val ELSE data
           /\ rejectedBy' = IF e.ok THEN rejectedBy ELSE "json"
    /\ UNCHANGED <<svcVars, envVars, mounted, items, dom,
                   fetchCount, setItemsCalls, lateUpdate, consoleErrors>>

\* .then((data) => setItems(data)), and the render the new state causes
ThenSetItems ==
    /\ vpc = "data"
    /\ setItemsCalls' = setItemsCalls + 1
    /\ IF mounted = "mounted"
       THEN /\ items' = data
            /\ dom' = Render(data)
            /\ lateUpdate' = lateUpdate
            /\ IF Render(data).ok
               THEN /\ mounted' = mounted
                    /\ rejectedBy' = rejectedBy
                    /\ IF DepsChanged
                       THEN /\ fetchCount' = fetchCount + 1
                            /\ vpc' = "fetching"
                            /\ pending' = pending \cup {0}
                            /\ resp' = NoResp
                       ELSE /\ vpc' = "done"
                            /\ UNCHANGED <<fetchCount, pending, resp>>
               ELSE \* the render throws; whether the throw reaches the chain's
                    \* catch depends on the React build
                    /\ mounted' = "crashed"
                    /\ \E caught \in BOOLEAN :
                          /\ vpc' = IF caught THEN "rejected" ELSE "done"
                          /\ rejectedBy' = IF caught THEN "render" ELSE rejectedBy
                    /\ UNCHANGED <<fetchCount, pending, resp>>
       ELSE /\ lateUpdate' = TRUE
            /\ vpc' = "done"
            /\ UNCHANGED <<mounted, items, dom, rejectedBy, fetchCount, pending, resp>>
    /\ UNCHANGED <<file, serverUp, log, diskReads, envVars, data, consoleErrors>>

\* a catch that swallows the rejection
CatchLog_silent ==
    /\ vpc = "rejected"
    /\ vpc' = "failed"
    /\ UNCHANGED <<svcVars, envVars, mounted, items, dom, data, rejectedBy,
                   fetchCount, setItemsCalls, lateUpdate, consoleErrors>>

\* .catch((error) => console.error("Error fetching items:", error))
CatchLog ==
    /\ vpc = "rejected"
    /\ consoleErrors' = consoleErrors + 1
    /\ vpc' = "failed"
    /\ UNCHANGED <<svcVars, envVars, mounted, items, dom, data, rejectedBy,
                   fetchCount, setItemsCalls, lateUpdate>>

\* the page is torn down
Unmount ==
    /\ mounted = "mounted"
    /\ mounted' = "unmounted"
    /\ dom' = EmptyList
    /\ vpc' = EffectCleanup(vpc)
    /\ UNCHANGED <<svcVars, envVars, items, data, rejectedBy,
                   fetchCount, setItemsCalls, lateUpdate, consoleErrors>>

(***************************************************************************)
(* Specifications.                                                         *)
(***************************************************************************)
EnvNext ==
    \/ \E f \in Files : ReplaceFile(f)
    \/ DeleteFile
    \/ RevokeRead

ServiceNext == \E r \in pending : GetApiItems(r)

ViewerNext ==
    \/ Mount
    \/ NetworkError
    \/ FetchResolve
    \/ ResponseJson
    \/ ThenSetItems
    \/ CatchLog
    \/ Unmount

\* the service, its backing file and its clients
Next == EnvNext \/ CurlSend \/ ServiceNext

Spec == Init /\ [][Next]_vars

\* one page load of the viewer against the service
ViewerSpecNext == EnvNext \/ ServiceNext \/ ViewerNext

ViewerSpec == Init /\ [][ViewerSpecNext]_vars


(***************************************************************************)
(* Properties.                                                             *)
(***************************************************************************)
Handled == 1..Len(log)

\* the item array `its` serialised without white space, in either field order
Expected(its) == {ItemsText(its, Compact), ItemsText(its, CompactNameFirst)}

\* every identifier is below 2^53, so a double holds it exactly
SafeIds(its) == \A i \in 1..Len(its) : its[i].hi < Limb \div 2

Faulty(f) == f.st # "present" \/ f.kind = "bad"

\* C1 as stated: for every well-formed backing file holding an array of N item
\* objects, the request succeeds and the body is exactly those N objects, each
\* with the identifier and name of the file, in file order.
C1_ItemsPreserved ==
    \A i \in Handled :
        (log[i].fileAt.st = "present" /\ log[i].fileAt.kind = "items")
            => /\ log[i].status = 200
               /\ log[i].body \in Expected(log[i].fileAt.items)

\* C1 amended: the same, for files whose identifiers are at most 2^53 (a
\* JavaScript number holds them exactly).
C1_SafeItemsPreserved ==
    \A i \in Handled :
        (/\ log[i].fileAt.st = "present"
         /\ log[i].fileAt.kind = "items"
         /\ SafeIds(log[i].fileAt.items))
            => /\ log[i].status = 200
               /\ log[i].body \in Expected(log[i].fileAt.items)

\* a file of two items, identifiers out of order, was served: two objects, in
\* file order
C1_Witness ==
    \E i \in Handled :
        /\ log[i].fileAt.st = "present"
        /\ log[i].fileAt.items = <<Item2, Item1>>
        /\ log[i].status = 200
        /\ log[i].body = ItemsText(<<Item2, Item1>>, Compact)

\* C2: every successful response is the serialisation of the file as it is when
\* the request is handled, never of an earlier version; requests that meet the
\* same file get the same answer.
C2_Fresh ==
    \A i \in Handled :
        /\ log[i].status = 200
              => /\ log[i].fileAt.st = "present"
                 /\ log[i].fileAt.kind \in {"items", "json"}
                 /\ log[i].body = Stringify(JSONParse(log[i].fileAt.text).val)
        /\ (/\ log[i].fileAt.st = "present"
            /\ log[i].fileAt.kind = "items"
            /\ SafeIds(log[i].fileAt.items))
              => log[i].body \in Expected(log[i].fileAt.items)
        /\ \A j \in Handled :
              log[j].fileAt = log[i].fileAt
                  => log[j].status = log[i].status /\ log[j].body = log[i].body

\* the file was replaced between two successful requests, and the second answer
\* differs from the first
C2_Witness ==
    \E i, j \in Handled :
        /\ i < j
        /\ log[i].status = 200 /\ log[j].status = 200
        /\ log[i].fileAt # log[j].fileAt
        /\ log[i].body # log[j].body

\* C3: a request handled while the backing file is missing, unreadable or not
\* JSON ends with a 5xx response, never with a success.
C3_FaultIs5xx ==
    \A i \in Handled :
        Faulty(log[i].fileAt) => log[i].status >= 500 /\ log[i].status < 600

\* requests were handled with the file missing, and with the file malformed
C3_Witness ==
    /\ \E i \in Handled : log[i].fileAt.st = "absent" /\ log[i].status = 500
    /\ \E i \in Handled :
          /\ log[i].fileAt.st = "present"
          /\ log[i].fileAt.kind = "bad"
          /\ log[i].status = 500

\* C7: handling a request, successful or failed, reads the file once and leaves
\* the file and the service's state as they were; the file changes only when the
\* environment changes it.
C7_ReadOnly ==
    [][ /\ Len(log') = Len(log) + 1
            => /\ file' = file
               /\ diskReads' = diskReads + 1
               /\ serverUp' = serverUp
        /\ Len(log') = Len(log) => diskReads' = diskReads
        /\ file' # file => edits' = edits + 1 ]_vars

\* a successful and a failed request were handled
C7_Witness ==
    /\ diskReads = 2
    /\ \E i \in Handled : log[i].status = 200
    /\ \E i \in Handled : log[i].status = 500

\* C9: a failed request leaves the service up, and a later request that meets a
\* well-formed file succeeds with that file's items.
C9_Isolated ==
    /\ serverUp
    /\ \A i, j \in Handled :
          (/\ i < j
           /\ log[i].status = 500
           /\ log[j].fileAt.st = "present"
           /\ log[j].fileAt.kind \in {"items", "json"})
              => /\ log[j].status = 200
                 /\ log[j].body = Stringify(JSONParse(log[j].fileAt.text).val)
                 /\ (log[j].fileAt.kind = "items" /\ SafeIds(log[j].fileAt.items))
                       => log[j].body \in Expected(log[j].fileAt.items)

\* a request failed and a later one returned the README's items
C9_Witness ==
    \E i, j \in Handled :
        /\ i < j
        /\ log[i].status = 500
        /\ log[j].fileAt.text = ItemsJson
        /\ log[j].status = 200
        /\ log[j].body = ItemsText(ReadmeItems, Compact)

\* the viewer's requests the service has handled
ViewerHandled == {i \in Handled : IsViewer(log[i].req)}

Outstanding == vpc \in {"fetching", "response", "data"}

Names(its) == [i \in 1..Len(its) |-> Str(its[i].name)]

\* C4: one page load sends exactly one request: one on the first render and none
\* afterwards, whether the first succeeds, fails or is outstanding, and whatever
\* renders follow.
C4_OneFetch ==
    /\ fetchCount <= 1
    /\ mounted # "unrendered" => fetchCount = 1
    /\ Cardinality(ViewerHandled) <= 1
    /\ 0 \in pending => vpc = "fetching"

\* the request succeeded, the state update re-rendered the list, and still one
\* request was sent
C4_Witness ==
    /\ vpc = "done"
    /\ mounted = "mounted"
    /\ items # Arr(<<>>)
    /\ fetchCount = 1

\* C5: the displayed list is empty while the request is outstanding; once it
\* succeeds the list shows the received items, one entry per item with its
\* name, in the order received (the README's file shows Item 1, Item 2, Item 3).
C5_Displayed ==
    /\ (mounted = "mounted" /\ Outstanding) => (items = Arr(<<>>) /\ dom = EmptyList)
    /\ (mounted = "mounted" /\ vpc = "done")
          => /\ items = data
             /\ \A i \in ViewerHandled :
                   /\ (log[i].fileAt.st = "present" /\ log[i].fileAt.kind = "items")
                         => dom = [ok |-> TRUE, lis |-> Names(log[i].fileAt.items)]
                   /\ (log[i].fileAt.st = "present" /\ log[i].fileAt.text = ItemsJson)
                         => dom.lis = <<Str("Item 1"), Str("Item 2"), Str("Item 3")>>

\* the README's file was fetched and is shown
C5_Witness ==
    /\ mounted = "mounted"
    /\ vpc = "done"
    /\ \E i \in ViewerHandled : log[i].fileAt.text = ItemsJson
    /\ Len(dom.lis) = 3

\* C6: when the request fails (a network error, or a body that is not JSON such
\* as the service's error page) the rejection is caught and logged once, the
\* list stays empty, no second request is sent and nothing but the empty list
\* is shown.
C6_FailureSilent ==
    rejectedBy \in {"network", "json"}
        => /\ vpc \in {"rejected", "failed"}
           /\ vpc = "failed" <=> consoleErrors = 1
           /\ consoleErrors <= 1
           /\ items = Arr(<<>>)
           /\ setItemsCalls = 0
           /\ mounted = "mounted" => dom = EmptyList
           /\ fetchCount = 1
           /\ 0 \notin pending

\* the service answered 500 with its error page and the viewer logged the
\* rejection
C6_Witness ==
    /\ vpc = "failed"
    /\ rejectedBy = "json"
    /\ resp.status = 500
    /\ consoleErrors = 1
    /\ mounted = "mounted"

\* C8: teardown cancels nothing: it leaves the request and the promise chain as
\* they are, and a chain that resolves after teardown still calls setItems.
C8_NoCancel ==
    [][ /\ (mounted = "mounted" /\ mounted' = "unmounted")
            => (vpc' = vpc /\ pending' = pending /\ resp' = resp)
        /\ (mounted = "unmounted" /\ vpc = "data" /\ vpc' # "data")
            => (setItemsCalls' = setItemsCalls + 1 /\ lateUpdate') ]_vars

\* the viewer was torn down while the request was outstanding, and setItems was
\* called afterwards
C8_Witness ==
    /\ mounted = "unmounted"
    /\ lateUpdate
    /\ setItemsCalls = 1
    /\ vpc = "done"

\* C10 as stated: the viewer's item state is a list in every reachable state, so
\* the render is always defined.
C10_ItemsIsList == items.k = "arr"

====
